---- MODULE Spec2Model ----
(***************************************************************************)
(* Model of cinder/api/v2/volumes.py: the view translators, the option     *)
(* filter and the five operations of VolumeController.                     *)
(*                                                                         *)
(* Python values are tagged pairs <<tag, payload>>:                        *)
(*   <<"none", "">>      None (also what dict.get gives for a missing key) *)
(*   <<"str", s>>        a string                                          *)
(*   <<"int", t>>        an integer, t its decimal text                    *)
(*   <<"dict", f>>       a dict, f a function from keys to values          *)
(*   <<"list", q>>       a list, q a sequence                              *)
(*   <<"obj", n>>        any other object (e.g. the ORM's MetaData)        *)
(***************************************************************************)
EXTENDS Integers, Sequences, FiniteSets, TLC

VARIABLES pc, req, calls, log, outcome

vars == <<pc, req, calls, log, outcome>>

(* ---------------------------- bounds --------------------------------- *)

\* longest pair-list metadata (volume_metadata rows) carried by a record
MaxPairs == 2

\* longest list the Volume Service's get_all returns
MaxListed == 2

(* ------------------------- Python values ----------------------------- *)

None == <<"none", "">>

Absent == <<"absent", "">>

Str(s) == <<"str", s>>

Num(t) == <<"int", t>>

Dict(f) == <<"dict", f>>

List(q) == <<"list", q>>

EmptyDict == Dict([k \in {} |-> None])

\* Python truth value of v, as tested by `if v:` / `a and b`
Truthy(v) ==
    CASE v[1] = "none" -> FALSE
      [] v[1] = "str"  -> v[2] # ""
      [] v[1] = "int"  -> v[2] # "0"
      [] v[1] = "dict" -> DOMAIN v[2] # {}
      [] v[1] = "list" -> Len(v[2]) > 0
      [] OTHER         -> TRUE

\* str(v)
py_str(v) ==
    CASE v[1] = "none" -> Str("None")
      [] v[1] = "int"  -> Str(v[2])
      [] OTHER         -> v

\* d.get(k) on a dict value
dict_get(d, k) == IF k \in DOMAIN d[2] THEN d[2][k] ELSE None

\* a dict built from a choice per key, Absent meaning the key is not there
MkDict(choice) ==
    Dict([k \in {j \in DOMAIN choice : choice[j] # Absent} |-> choice[k]])

(* ------------------------- view translators -------------------------- *)

\* as _translate_attachment_summary_view, without the test of the mount point
_translate_attachment_summary_view_DeviceAlways(vol) ==
    [id |-> vol.id, volume_id |-> vol.id, server_id |-> vol.instance_uuid,
     device |-> vol.mountpoint]

_translate_attachment_summary_view(vol) ==
    LET d == [id |-> vol.id, volume_id |-> vol.id,
              server_id |-> vol.instance_uuid]
    IN  IF Truthy(vol.mountpoint)
        THEN d @@ [device |-> vol.mountpoint]
        ELSE d

_translate_attachment_detail_view(vol) ==
    _translate_attachment_summary_view(vol)

\* d['attachments'] of the summary view
view_attachments(vol) ==
    IF vol.attach_status = Str("attached")
    THEN <<_translate_attachment_detail_view(vol)>>
    ELSE <<>>

\* as view_volume_type, without the test of volume_type_id
view_volume_type_NameOnly(vol) ==
    IF Truthy(vol.volume_type)
    THEN vol.volume_type[2]["name"]
    ELSE py_str(vol.volume_type_id)

\* d['volume_type'] of the summary view
view_volume_type(vol) ==
    IF Truthy(vol.volume_type_id) /\ Truthy(vol.volume_type)
    THEN vol.volume_type[2]["name"]
    ELSE py_str(vol.volume_type_id)

\* dict((item['key'], item['value']) for item in metadata): pairs are
\* inserted in list order, a later pair overwriting an earlier one
RECURSIVE dict_from_pairs(_)
dict_from_pairs(items) ==
    IF items = <<>>
    THEN [k \in {} |-> None]
    ELSE LET n    == Len(items)
             init == dict_from_pairs(SubSeq(items, 1, n - 1))
             last == items[n]
         IN  [k \in DOMAIN init \cup {last.key} |->
                 IF k = last.key THEN last.value ELSE init[k]]

\* as view_metadata, the two metadata shapes tested in the other order
view_metadata_MappingFirst(vol) ==
    IF Truthy(vol.metadata) /\ vol.metadata[1] = "dict"
    THEN vol.metadata
    ELSE IF Truthy(vol.volume_metadata)
         THEN Dict(dict_from_pairs(vol.volume_metadata[2]))
         ELSE EmptyDict

\* d['metadata'] of the summary view
view_metadata(vol) ==
    IF Truthy(vol.volume_metadata)
    THEN Dict(dict_from_pairs(vol.volume_metadata[2]))
    ELSE IF Truthy(vol.metadata) /\ vol.metadata[1] = "dict"
         THEN vol.metadata
         ELSE EmptyDict

_translate_volume_summary_view(vol, image_id) ==
    LET d == [id                  |-> vol.id,
              status              |-> vol.status,
              size                |-> vol.size,
              availability_zone   |-> vol.availability_zone,
              created_at          |-> vol.created_at,
              attachments         |-> view_attachments(vol),
              display_name        |-> vol.display_name,
              display_description |-> vol.display_description,
              volume_type         |-> view_volume_type(vol),
              snapshot_id         |-> vol.snapshot_id,
              metadata            |-> view_metadata(vol)]
    IN  IF Truthy(image_id) THEN d @@ [image_id |-> image_id] ELSE d

_translate_volume_detail_view(vol, image_id) ==
    _translate_volume_summary_view(vol, image_id)

\* the LOG.audit("vol=%s") entry written for each translated record
AuditVol(vol) == [level |-> "audit", msg |-> "vol", arg |-> vol.id]


(* ------------------------ records and requests ----------------------- *)

\* a Volume Record as the translators read it; a key read with vol.get()
\* that is missing from the record is None here
VolumeRecord(id, attach_status, mountpoint, type_id, type, pairs, mapping) ==
    [id                  |-> Str(id),
     status              |-> Str("available"),
     size                |-> Num("5"),
     availability_zone   |-> Str("somewhere"),
     created_at          |-> Str("2012-01-01T00:00:00"),
     attach_status       |-> attach_status,
     instance_uuid       |-> IF attach_status = Str("attached")
                             THEN Str("server-1") ELSE None,
     mountpoint          |-> mountpoint,
     display_name        |-> Str("anothervolume"),
     display_description |-> Str("Just another volume!"),
     volume_type_id      |-> type_id,
     volume_type         |-> type,
     snapshot_id         |-> None,
     volume_metadata     |-> pairs,
     metadata            |-> mapping]

VolumeIds == {"vol-1"}

AttachStatuses == {Str("attached"), Str("detached")}

Mountpoints == {None, Str(""), Str("/dev/vdb")}

TypeIds == {None, Num("0"), Num("42"), Str("42")}

GoldType == Dict([k \in {"name"} |-> Str("gold")])

TypeObjects == {None, GoldType}

PairItems ==
    {[key |-> "a", value |-> Str("1")],
     [key |-> "a", value |-> Str("2")],
     [key |-> "b", value |-> Str("1")]}

PairLists == UNION {[1..n -> PairItems] : n \in 0..MaxPairs}

PairListValues == {None} \cup {List(q) : q \in PairLists}

MappingValues ==
    {None, <<"obj", "MetaData">>, EmptyDict,
     Dict([k \in {"a"} |-> Str("1")]),
     Dict([k \in {"b"} |-> Str("2")])}

\* the records the Volume Service's get may return for an id
VolumeRecords(id) ==
    {VolumeRecord(id, a, m, t, o, p, d) :
        a \in AttachStatuses, m \in Mountpoints, t \in TypeIds,
        o \in TypeObjects, p \in PairListValues, d \in MappingValues}

\* the records the Volume Service's get_all and create return
ListedRecords ==
    {VolumeRecord("vol-2", Str("detached"), None, None, None, None, None),
     VolumeRecord("vol-3", Str("attached"), Str("/dev/vdb"), Num("42"),
                  GoldType, List(<<[key |-> "a", value |-> Str("1")]>>), None)}

ListedSeqs == UNION {[1..n -> ListedRecords] : n \in 0..MaxListed}

(* --------------------------- outcomes -------------------------------- *)

Response(status, body) == [kind |-> "response", status |-> status, body |-> body]

HTTPError(status) == [kind |-> "http_error", status |-> status, body |-> None]

\* an exception the handler does not catch
Uncaught(name) == [kind |-> "exception", status |-> name, body |-> None]

Result(c, l, o) == [calls |-> c, log |-> l, outcome |-> o]

(* --------------------------- show, delete ---------------------------- *)

\* as show, without the except clause
show_NoCatch(id, found, vol) ==
    IF found
    THEN Result(<<[op |-> "get", id |-> id]>>, <<AuditVol(vol)>>,
                Response("200", [volume |-> _translate_volume_detail_view(vol, None)]))
    ELSE Result(<<[op |-> "get", id |-> id]>>, <<>>, Uncaught("NotFound"))

show(id, found, vol) ==
    IF found
    THEN Result(<<[op |-> "get", id |-> id]>>, <<AuditVol(vol)>>,
                Response("200", [volume |-> _translate_volume_detail_view(vol, None)]))
    ELSE Result(<<[op |-> "get", id |-> id]>>, <<>>, HTTPError("404"))

delete(id, found, vol) ==
    LET audit == <<[level |-> "audit", msg |-> "Delete volume with id", arg |-> Str(id)]>>
    IN  IF found
        THEN Result(<<[op |-> "get", id |-> id], [op |-> "delete", volume |-> vol]>>,
                    audit, Response("202", None))
        ELSE Result(<<[op |-> "get", id |-> id]>>, audit, HTTPError("404"))


(* -------------------------- option filter ---------------------------- *)

\* search options are a mapping from option name to its value

\* as remove_invalid_options, without the is_admin early return
remove_invalid_options_AdminToo(is_admin, search_options, allowed_search_options) ==
    [opt \in DOMAIN search_options \cap allowed_search_options |-> search_options[opt]]

\* the mapping remove_invalid_options leaves in search_options
remove_invalid_options(is_admin, search_options, allowed_search_options) ==
    IF is_admin
    THEN search_options
    ELSE LET unknown_options ==
                 {opt \in DOMAIN search_options : opt \notin allowed_search_options}
         IN  [opt \in DOMAIN search_options \ unknown_options |-> search_options[opt]]

\* the LOG.debug line remove_invalid_options writes, naming the removed keys
remove_invalid_options_log(is_admin, search_options, allowed_search_options) ==
    IF is_admin
    THEN <<>>
    ELSE <<[level |-> "debug", msg |-> "Removing options from query",
            arg |-> {opt \in DOMAIN search_options : opt \notin allowed_search_options}]>>

_get_volume_search_options == {"display_name", "status"}

OptionChoices ==
    [display_name : {Absent, Str("x"), Str("y")},
     status       : {Absent, Str("available")},
     foo          : {Absent, Str("y")}]

\* the query parameters of a list request
QueryParams == {MkDict(c)[2] : c \in OptionChoices}

AllowedSets == SUBSET {"display_name", "status", "foo"}

(* -------------------------- index, detail ---------------------------- *)

\* common.limited: caps the number of items returned
limited(items, cap) == SubSeq(items, 1, cap)

\* the entity_maker index and detail hand to _items
entity_maker(entity, vol) ==
    IF entity = "summary"
    THEN _translate_volume_summary_view(vol, None)
    ELSE _translate_volume_detail_view(vol, None)

_items(entity, is_admin, GET, volumes, cap) ==
    LET allowed      == _get_volume_search_options
        search_opts  == remove_invalid_options(is_admin, GET, allowed)
        limited_list == limited(volumes, cap)
        res == [i \in 1..Len(limited_list) |-> entity_maker(entity, limited_list[i])]
    IN  Result(<<[op |-> "get_all", search_opts |-> search_opts]>>,
               remove_invalid_options_log(is_admin, GET, allowed)
                   \o [i \in 1..Len(limited_list) |-> AuditVol(limited_list[i])],
               Response("200", [volumes |-> res]))

index(is_admin, GET, volumes, cap) == _items("summary", is_admin, GET, volumes, cap)

detail(is_admin, GET, volumes, cap) == _items("detail", is_admin, GET, volumes, cap)

(* ------------------------------ create ------------------------------- *)

\* wsgi.Controller.is_valid_body: the body is a non-empty mapping that
\* holds the entity, itself a mapping
is_valid_body(body, entity) ==
    /\ body[1] = "dict"
    /\ entity \in DOMAIN body[2]
    /\ body[2][entity][1] = "dict"

\* the volume types volume_types.get_volume_type_by_name knows, by name
VolumeTypes == [n \in {"gold"} |-> Dict([k \in {"name"} |-> Str(n)])]

\* the snapshots volume_api.get_snapshot knows, by id
Snapshots ==
    [i \in {"s1"} |-> Dict([k \in {"id", "volume_size"} |->
                              IF k = "id" THEN Str(i) ELSE Num("10")])]

ImageUuid == "c905cedb-7281-47e4-8a62-f26bc5fc4c77"

ImageHref == "http://glance/v1/images/c905cedb-7281-47e4-8a62-f26bc5fc4c77"

\* s.split('/')
split_slash(s) ==
    CASE s = ImageHref -> <<"http:", "", "glance", "v1", "images", ImageUuid>>
      [] s = "images/"  -> <<"images", "">>
      [] OTHER          -> <<s>>

\* uuidutils.is_uuid_like
is_uuid_like(s) == s = ImageUuid

\* image_uuid, or Absent where the method raises HTTPBadRequest
_image_uuid_from_href(image_href) ==
    IF image_href[1] # "str"
    THEN Absent
    ELSE LET parts      == split_slash(image_href[2])
             image_uuid == parts[Len(parts)]
         IN  IF is_uuid_like(image_uuid) THEN Str(image_uuid) ELSE Absent

\* as create_size, with `not size` for `size is None`
create_size_Falsy(volume, snapshot) ==
    IF ~Truthy(dict_get(volume, "size")) /\ snapshot # None
    THEN snapshot[2]["volume_size"]
    ELSE dict_get(volume, "size")

\* the size create passes to the Volume Service
create_size(volume, snapshot) ==
    IF dict_get(volume, "size") = None /\ snapshot # None
    THEN snapshot[2]["volume_size"]
    ELSE dict_get(volume, "size")

create(ext_loaded, body, new_volume) ==
    IF ~is_valid_body(body, "volume")
    THEN Result(<<>>, <<>>, HTTPError("422"))
    ELSE
    LET volume          == body[2]["volume"]
        req_volume_type == dict_get(volume, "volume_type")
        type_calls      == IF Truthy(req_volume_type)
                           THEN <<[op |-> "get_volume_type_by_name",
                                   name |-> req_volume_type]>>
                           ELSE <<>>
        type_found      == req_volume_type[2] \in DOMAIN VolumeTypes
        snapshot_id     == dict_get(volume, "snapshot_id")
        snap_calls      == IF snapshot_id # None
                           THEN <<[op |-> "get_snapshot", id |-> snapshot_id]>>
                           ELSE <<>>
        snap_found      == snapshot_id[2] \in DOMAIN Snapshots
        snapshot        == IF snapshot_id # None
                           THEN Snapshots[snapshot_id[2]] ELSE None
        size            == create_size(volume, snapshot)
        audit           == <<[level |-> "audit", msg |-> "Create volume of GB",
                              arg |-> size]>>
        image_href      == IF ext_loaded THEN dict_get(volume, "imageRef") ELSE None
        image_uuid      == IF ext_loaded /\ Truthy(image_href)
                           THEN _image_uuid_from_href(image_href) ELSE None
        kwargs0         == [metadata          |-> dict_get(volume, "metadata"),
                            snapshot          |-> snapshot,
                            availability_zone |-> dict_get(volume, "availability_zone")]
        kwargs1         == IF Truthy(req_volume_type)
                           THEN kwargs0 @@ [volume_type |-> VolumeTypes[req_volume_type[2]]]
                           ELSE kwargs0
        kwargs          == IF ext_loaded /\ Truthy(image_href)
                           THEN kwargs1 @@ [image_id |-> image_uuid]
                           ELSE kwargs1
        create_call     == [op |-> "create", size |-> size,
                            display_name |-> dict_get(volume, "display_name"),
                            display_description |->
                                dict_get(volume, "display_description"),
                            kwargs |-> kwargs]
    IN  IF Truthy(req_volume_type) /\ ~type_found
        THEN Result(type_calls, <<>>, HTTPError("404"))
        ELSE IF snapshot_id # None /\ ~snap_found
        THEN Result(type_calls \o snap_calls, <<>>, Uncaught("NotFound"))
        ELSE IF ext_loaded /\ Truthy(snapshot_id) /\ Truthy(image_href)
        THEN Result(type_calls \o snap_calls, audit, HTTPError("400"))
        ELSE IF ext_loaded /\ Truthy(image_href) /\ image_uuid = Absent
        THEN Result(type_calls \o snap_calls, audit, HTTPError("400"))
        ELSE Result(type_calls \o snap_calls \o <<create_call>>,
                    audit \o <<AuditVol(new_volume)>>,
                    Response("200",
                        [volume |-> _translate_volume_detail_view(new_volume, image_uuid)]))

CreateChoices ==
    [volume_type  : {Absent, Str("gold"), Str("platinum")},
     snapshot_id  : {Absent, Str(""), Str("s1"), Str("s9")},
     size         : {Absent, Num("0"), Num("5")},
     imageRef     : {Absent, Str(""), Str(ImageUuid), Str(ImageHref),
                     Str("images/"), Str("not-a-uuid"), Num("7")},
     display_name : {Absent, Str("new")}]

\* the bodies of create requests
CreateBodies ==
    {None, Dict([k \in {"other"} |-> None]), Dict([k \in {"volume"} |-> None])}
        \cup {Dict([k \in {"volume"} |-> MkDict(c)]) : c \in CreateChoices}

(* ------------------------------ update ------------------------------- *)

valid_update_keys == {"display_name", "display_description", "metadata"}

\* as update_dict, without the filter on valid_update_keys
update_dict_AllKeys(volume) == volume[2]

\* the update_dict update builds from the request's volume mapping
update_dict(volume) ==
    [key \in {k \in valid_update_keys : k \in DOMAIN volume[2]} |-> volume[2][key]]

\* volume.update(update_dict) on the fetched record
record_update(vol, updates) ==
    [k \in DOMAIN vol \cup DOMAIN updates |->
        IF k \in DOMAIN updates THEN updates[k] ELSE vol[k]]

update(id, body, found, vol) ==
    IF ~Truthy(body)
    THEN Result(<<>>, <<>>, HTTPError("422"))
    ELSE IF "volume" \notin DOMAIN body[2]
    THEN Result(<<>>, <<>>, HTTPError("422"))
    ELSE IF body[2]["volume"][1] # "dict"
    THEN Result(<<>>, <<>>, Uncaught("TypeError"))
    ELSE
    LET volume == body[2]["volume"]
        ud     == update_dict(volume)
        merged == record_update(vol, ud)
    IN  IF ~found
        THEN Result(<<[op |-> "get", id |-> id]>>, <<>>, HTTPError("404"))
        ELSE Result(<<[op |-> "get", id |-> id],
                      [op |-> "update", volume |-> vol, fields |-> ud]>>,
                    <<AuditVol(merged)>>,
                    Response("200",
                        [volume |-> _translate_volume_detail_view(merged, None)]))

UpdateChoices ==
    [display_name        : {Absent, Str("new")},
     display_description : {Absent, Str("newer")},
     metadata            : {Absent, EmptyDict, Dict([k \in {"b"} |-> Str("2")])},
     bogus_field         : {Absent, Str("z")}]

\* the bodies of update requests
UpdateBodies ==
    {None, EmptyDict, Dict([k \in {"other"} |-> None]),
     Dict([k \in {"volume"} |-> None])}
        \cup {Dict([k \in {"volume"} |-> MkDict(c)]) : c \in UpdateChoices}

(* ----------------------------- the machine --------------------------- *)

NoRequest == [op |-> "none"]

Init ==
    /\ pc = "idle"
    /\ req = NoRequest
    /\ calls = <<>>
    /\ log = <<>>
    /\ outcome = [kind |-> "none", status |-> "", body |-> None]

Finish(r) ==
    /\ pc' = "done"
    /\ calls' = r.calls
    /\ log' = r.log
    /\ outcome' = r.outcome

Show ==
    /\ pc = "idle"
    /\ \E id \in VolumeIds, found \in BOOLEAN :
         \E vol \in IF found THEN VolumeRecords(id) ELSE {None} :
            /\ req' = [op |-> "show", id |-> id, found |-> found, vol |-> vol]
            /\ Finish(show(id, found, vol))

Delete ==
    /\ pc = "idle"
    /\ \E id \in VolumeIds, found \in BOOLEAN :
         \E vol \in IF found THEN VolumeRecords(id) ELSE {None} :
            /\ req' = [op |-> "delete", id |-> id, found |-> found, vol |-> vol]
            /\ Finish(delete(id, found, vol))

Index ==
    /\ pc = "idle"
    /\ \E is_admin \in BOOLEAN, GET \in QueryParams, volumes \in ListedSeqs :
         \E cap \in 0..Len(volumes) :
            /\ req' = [op |-> "index", is_admin |-> is_admin, GET |-> GET,
                       volumes |-> volumes, cap |-> cap]
            /\ Finish(index(is_admin, GET, volumes, cap))

Detail ==
    /\ pc = "idle"
    /\ \E is_admin \in BOOLEAN, GET \in QueryParams, volumes \in ListedSeqs :
         \E cap \in 0..Len(volumes) :
            /\ req' = [op |-> "detail", is_admin |-> is_admin, GET |-> GET,
                       volumes |-> volumes, cap |-> cap]
            /\ Finish(detail(is_admin, GET, volumes, cap))

Create ==
    /\ pc = "idle"
    /\ \E ext_loaded \in BOOLEAN, body \in CreateBodies, new_volume \in ListedRecords :
            /\ req' = [op |-> "create", ext_loaded |-> ext_loaded, body |-> body,
                       new_volume |-> new_volume]
            /\ Finish(create(ext_loaded, body, new_volume))

Update ==
    /\ pc = "idle"
    /\ \E id \in VolumeIds, body \in UpdateBodies, found \in BOOLEAN :
         \E vol \in IF found THEN VolumeRecords(id) ELSE {None} :
            /\ req' = [op |-> "update", id |-> id, body |-> body,
                       found |-> found, vol |-> vol]
            /\ Finish(update(id, body, found, vol))

\* a direct call of the module-level function remove_invalid_options
RemoveInvalidOptions ==
    /\ pc = "idle"
    /\ \E is_admin \in BOOLEAN, opts \in QueryParams, allowed \in AllowedSets :
            /\ req' = [op |-> "remove_invalid_options", is_admin |-> is_admin,
                       search_options |-> opts, allowed |-> allowed]
            /\ Finish(Result(<<>>,
                             remove_invalid_options_log(is_admin, opts, allowed),
                             [kind |-> "return", status |-> "",
                              body |-> remove_invalid_options(is_admin, opts, allowed)]))

\* the response is sent; the controller keeps nothing between requests
Return ==
    /\ pc = "done"
    /\ pc' = "idle"
    /\ req' = NoRequest
    /\ calls' = <<>>
    /\ log' = <<>>
    /\ outcome' = [kind |-> "none", status |-> "", body |-> None]

Next ==
    \/ Show
    \/ Delete
    \/ Index
    \/ Detail
    \/ Create
    \/ Update
    \/ RemoveInvalidOptions
    \/ Return

Spec == Init /\ [][Next]_vars


(* ------------------------- reading a state --------------------------- *)

Done(op) == pc = "done" /\ req.op = op

\* the positions in calls of the Volume Service calls named op
CallsOf(op) == {i \in 1..Len(calls) : calls[i].op = op}

\* the request's volume mapping, for a create or update body that has one
HasVolumeMapping ==
    /\ req.body[1] = "dict"
    /\ "volume" \in DOMAIN req.body[2]
    /\ req.body[2]["volume"][1] = "dict"

VolumeMapping == req.body[2]["volume"][2]

\* a key of the volume mapping given with a non-empty value
Specified(key) ==
    /\ key \in DOMAIN VolumeMapping
    /\ VolumeMapping[key] \notin {None, Str("")}

\* the number of records the response renders, the i-th record and its view
NumRendered ==
    IF pc = "done" /\ outcome.kind = "response"
    THEN CASE req.op \in {"show", "create", "update"} -> 1
           [] req.op \in {"index", "detail"} -> Len(outcome.body.volumes)
           [] OTHER -> 0
    ELSE 0

RenderedVol(i) ==
    CASE req.op \in {"show", "update"} -> req.vol
      [] req.op = "create" -> req.new_volume
      [] OTHER -> req.volumes[i]

RenderedView(i) ==
    CASE req.op \in {"show", "update", "create"} -> outcome.body.volume
      [] OTHER -> outcome.body.volumes[i]

(* ------------------------------ claims ------------------------------- *)

\* C1: remove_invalid_options leaves, for a non-admin context, exactly the
\* original options restricted to the allowed set (values kept), and for an
\* admin context the options unchanged; index and detail pass a non-admin
\* caller's options to get_all restricted to {display_name, status}.
C1_OptionFilter ==
    /\ Done("remove_invalid_options") =>
          LET before == req.search_options
              after  == outcome.body
          IN  IF req.is_admin
              THEN after = before
              ELSE /\ DOMAIN after = DOMAIN before \cap req.allowed
                   /\ \A k \in DOMAIN after : after[k] = before[k]
    /\ (Done("index") \/ Done("detail")) =>
          /\ Cardinality(CallsOf("get_all")) = 1
          /\ \A i \in CallsOf("get_all") :
                LET sent == calls[i].search_opts
                IN  IF req.is_admin
                    THEN sent = req.GET
                    ELSE /\ DOMAIN sent = DOMAIN req.GET \cap {"display_name", "status"}
                         /\ \A k \in DOMAIN sent : sent[k] = req.GET[k]

C1_Witness ==
    /\ Done("remove_invalid_options")
    /\ ~req.is_admin
    /\ "foo" \in DOMAIN req.search_options
    /\ "foo" \notin req.allowed
    /\ "display_name" \in DOMAIN req.search_options \cap req.allowed
    /\ "status" \in DOMAIN req.search_options \ req.allowed

\* C2: create with the image-create extension enabled and a body that
\* specifies both snapshot_id and imageRef ends in a 4xx error and never
\* issues the Volume Service create call.
C2_SnapshotAndImage ==
    (Done("create") /\ req.ext_loaded /\ HasVolumeMapping
        /\ Specified("snapshot_id") /\ Specified("imageRef")) =>
        /\ outcome.kind = "http_error"
        /\ outcome.status \in {"400", "404", "422"}
        /\ CallsOf("create") = {}

\* C3: the fields update passes to the Volume Service update call are
\* exactly the keys of {display_name, display_description, metadata} present
\* in the request's volume mapping, each with the submitted value; another
\* submitted field never reaches the service and is not an error.
C3_UpdateFields ==
    (Done("update") /\ HasVolumeMapping) =>
        /\ req.found => /\ Cardinality(CallsOf("update")) = 1
                        /\ outcome.kind = "response"
                        /\ outcome.status = "200"
        /\ \A i \in CallsOf("update") :
              LET fields == calls[i].fields
              IN  /\ DOMAIN fields = DOMAIN VolumeMapping
                         \cap {"display_name", "display_description", "metadata"}
                  /\ \A k \in DOMAIN fields : fields[k] = VolumeMapping[k]

C3_Witness ==
    /\ Done("update")
    /\ HasVolumeMapping
    /\ {"display_name", "bogus_field"} \subseteq DOMAIN VolumeMapping
    /\ "metadata" \notin DOMAIN VolumeMapping
    /\ CallsOf("update") # {}

\* C4: show, delete and update whose get signals NotFound end in HTTP 404
\* with no view produced and no service delete or update call issued;
\* delete on a known id issues the service delete and returns 202.
C4_NotFound ==
    /\ (pc = "done" /\ req.op \in {"show", "delete", "update"}
            /\ CallsOf("get") # {} /\ ~req.found) =>
          /\ outcome.kind = "http_error"
          /\ outcome.status = "404"
          /\ NumRendered = 0
          /\ CallsOf("delete") = {}
          /\ CallsOf("update") = {}
    /\ (Done("delete") /\ req.found) =>
          /\ Cardinality(CallsOf("delete")) = 1
          /\ \A i \in CallsOf("delete") : calls[i].volume = req.vol
          /\ outcome.kind = "response"
          /\ outcome.status = "202"

C4_Witness ==
    /\ Done("update")
    /\ HasVolumeMapping
    /\ CallsOf("get") # {}
    /\ ~req.found
    /\ outcome.status = "404"

\* C5: every not-found condition the Volume Service raises is re-expressed
\* by the controller as HTTP 404; a create whose snapshot_id the snapshot
\* lookup does not know ends in 404 and never issues the create call.
C5_NotFoundIs404 ==
    LET volumeNotFound   == CallsOf("get") # {} /\ ~req.found
        typeNotFound     == \E i \in CallsOf("get_volume_type_by_name") :
                               calls[i].name[2] \notin DOMAIN VolumeTypes
        snapshotNotFound == \E i \in CallsOf("get_snapshot") :
                               calls[i].id[2] \notin DOMAIN Snapshots
    IN  (pc = "done" /\ (volumeNotFound \/ typeNotFound \/ snapshotNotFound)) =>
            /\ outcome.kind = "http_error"
            /\ outcome.status = "404"
            /\ CallsOf("create") = {}

\* C6: the size create passes to the Volume Service is the size of the
\* request body when it gives one, the resolved snapshot's volume_size when
\* it gives none and a snapshot was resolved, and None when it gives
\* neither.
C6_CreateSize ==
    Done("create") =>
        \A i \in CallsOf("create") :
            LET supplied == "size" \in DOMAIN VolumeMapping
                snapshot == "snapshot_id" \in DOMAIN VolumeMapping
            IN  calls[i].size =
                    IF supplied THEN VolumeMapping["size"]
                    ELSE IF snapshot
                         THEN Snapshots[VolumeMapping["snapshot_id"][2]][2]["volume_size"]
                         ELSE None

C6_Witness ==
    /\ Done("create")
    /\ \E i \in CallsOf("create") :
          /\ "size" \in DOMAIN VolumeMapping
          /\ VolumeMapping["size"] = Num("0")
          /\ "snapshot_id" \in DOMAIN VolumeMapping
          /\ calls[i].kwargs.snapshot # None


\* C7: after a successful update each of display_name, display_description
\* and metadata present in the request has the submitted value in the
\* rendered view, whatever the shape of the pre-fetched record, and every
\* other view field is the one derived from the pre-fetched record.
C7_UpdateViewMerged ==
    (Done("update") /\ outcome.kind = "response") =>
        LET view      == outcome.body.volume
            old       == _translate_volume_detail_view(req.vol, None)
            submitted == DOMAIN VolumeMapping
                             \cap {"display_name", "display_description", "metadata"}
        IN  /\ DOMAIN view = DOMAIN old
            /\ \A k \in DOMAIN view :
                  view[k] = IF k \in submitted THEN VolumeMapping[k] ELSE old[k]

\* what C8 says of one record and its view
AttachmentsAsClaimed(vol, view) ==
    IF vol.attach_status # Str("attached")
    THEN view.attachments = <<>>
    ELSE /\ Len(view.attachments) = 1
         /\ LET a == view.attachments[1]
            IN  /\ a.id = vol.id
                /\ a.volume_id = vol.id
                /\ a.server_id = vol.instance_uuid
                /\ "device" \in DOMAIN a <=> vol.mountpoint \notin {None, Str("")}
                /\ "device" \in DOMAIN a => a.device = vol.mountpoint

\* C8: the view's attachments list is empty when attach_status is not
\* "attached" and holds exactly one attachment view when it is; that view's
\* id and volume_id are the volume's id, its server_id the record's
\* instance reference, and it has a device field if and only if the record
\* has a (non-empty) mount point, the device then being that mount point.
C8_Attachments ==
    \A i \in 1..NumRendered : AttachmentsAsClaimed(RenderedVol(i), RenderedView(i))

C8_Witness ==
    /\ Done("show")
    /\ NumRendered = 1
    /\ req.vol.attach_status = Str("attached")
    /\ req.vol.mountpoint = None
    /\ Len(outcome.body.volume.attachments) = 1

\* what C9 says of one record and its view
VolumeTypeAsStated(vol, view) ==
    view.volume_type =
        IF vol.volume_type # None
        THEN vol.volume_type[2]["name"]
        ELSE py_str(vol.volume_type_id)

\* C9 as stated: the view's volume_type is the embedded type object's name
\* whenever the record carries an embedded type object, and otherwise the
\* string form of the raw type reference.
C9_VolumeTypeAsStated ==
    \A i \in 1..NumRendered : VolumeTypeAsStated(RenderedVol(i), RenderedView(i))

\* what the amended C9 says of one record and its view
VolumeTypeAmended(vol, view) ==
    view.volume_type =
        IF vol.volume_type # None
              /\ vol.volume_type_id \notin {None, Num("0"), Str("")}
        THEN vol.volume_type[2]["name"]
        ELSE CASE vol.volume_type_id = None      -> Str("None")
               [] vol.volume_type_id = Num("0")  -> Str("0")
               [] vol.volume_type_id = Num("42") -> Str("42")
               [] OTHER                          -> vol.volume_type_id

\* C9 amended: the view's volume_type is the embedded type object's name
\* when the record carries both a type reference that is neither null, zero
\* nor empty and an embedded type object, and otherwise the string form of
\* the raw type reference ("None" for a null reference, even beside an
\* embedded object).
C9_VolumeTypeAmended ==
    \A i \in 1..NumRendered : VolumeTypeAmended(RenderedVol(i), RenderedView(i))

C9_Witness ==
    /\ Done("show")
    /\ NumRendered = 1
    /\ req.vol.volume_type = GoldType
    /\ req.vol.volume_type_id = Num("0")
    /\ outcome.body.volume.volume_type = Str("0")

\* the mapping a pair list denotes: each key to the value of its last pair
PairsAsMapping(q) ==
    [k \in {q[i].key : i \in 1..Len(q)} |->
        LET last == CHOOSE i \in 1..Len(q) :
                        /\ q[i].key = k
                        /\ \A j \in (i + 1)..Len(q) : q[j].key # k
        IN  q[last].value]

\* what C10 says of one record and its view
MetadataAsClaimed(vol, view) ==
    /\ view.metadata[1] = "dict"
    /\ view.metadata =
          IF vol.volume_metadata # None /\ vol.volume_metadata[2] # <<>>
          THEN Dict(PairsAsMapping(vol.volume_metadata[2]))
          ELSE IF vol.metadata[1] = "dict"
               THEN vol.metadata
               ELSE EmptyDict

\* C10: the view always has a metadata mapping; a pair list renders as the
\* mapping of each pair's key to its value (the last pair of a repeated
\* key), the same as a record carrying that mapping directly; a pair list
\* takes priority over a direct mapping; a record with neither renders the
\* empty mapping.
C10_Metadata ==
    \A i \in 1..NumRendered :
        req.op # "update" => MetadataAsClaimed(RenderedVol(i), RenderedView(i))

C10_Witness ==
    /\ Done("show")
    /\ NumRendered = 1
    /\ req.vol.volume_metadata = List(<<[key |-> "a", value |-> Str("2")],
                                        [key |-> "b", value |-> Str("1")]>>)
    /\ req.vol.metadata = Dict([k \in {"b"} |-> Str("2")])
    /\ outcome.body.volume.metadata =
           Dict([k \in {"a", "b"} |-> IF k = "a" THEN Str("2") ELSE Str("1")])

====
